---- MODULE Spec2Model ----
(***************************************************************************)
(* Model of the node content editor of NodeModal/index.tsx: the projector  *)
(* normalizeNodeData, the path formatter jsonPathToString, the path        *)
(* mutator setValueAtPath and the edit/view state machine of the NodeModal *)
(* component (handleSave, handleCancel, handleClose, the reset effect).    *)
(*                                                                         *)
(* Texts are sequences of lexical tokens (whitespace tokens included), so  *)
(* that JSON.parse and JSON.stringify are computed and not assumed.        *)
(* JavaScript values are tagged records.                                   *)
(***************************************************************************)
EXTENDS Integers, Sequences, FiniteSets, TLC

(***************************************************************************)
(* JavaScript values.                                                      *)
(*   null, booleans, numbers and strings carry their payload as a string   *)
(*   (a number carries its canonical numeral).  An array carries its       *)
(*   element slots (a hole is Undefined) and, apart from them, the         *)
(*   non-index properties assigned to it.  An object carries its own       *)
(*   properties in insertion order.                                        *)
(***************************************************************************)
Undefined == [t |-> "undefined", v |-> "undefined"]
Null == [t |-> "null", v |-> "null"]
Bool(s) == [t |-> "bool", v |-> s]
Num(s) == [t |-> "num", v |-> s]
Str(s) == [t |-> "str", v |-> s]
Arr(es) == [t |-> "arr", v |-> es, p |-> <<>>]
Obj(ps) == [t |-> "obj", v |-> ps]
Prop(k, x) == [k |-> k, x |-> x]

IsArray(x) == x.t = "arr"
IsObject(x) == x.t = "obj"
IsPrimitive(x) == x.t \in {"bool", "num", "str"}

\* Position of key k among the properties ps, 0 when absent.
RECURSIVE KeyIndex(_, _, _)
KeyIndex(ps, k, i) ==
    IF i > Len(ps) THEN 0
    ELSE IF ps[i].k = k THEN i
    ELSE KeyIndex(ps, k, i + 1)

\* ps with property k assigned x: in place when present, appended otherwise.
AssignProp(ps, k, x) ==
    LET i == KeyIndex(ps, k, 1)
    IN  IF i = 0 THEN Append(ps, Prop(k, x))
        ELSE [ps EXCEPT ![i] = Prop(k, x)]

\* ps[k], Undefined when absent.
ReadProp(ps, k) ==
    LET i == KeyIndex(ps, k, 1)
    IN  IF i = 0 THEN Undefined ELSE ps[i].x

(***************************************************************************)
(* Path segments: typeof seg === "number" for an index, a string key       *)
(* otherwise.                                                              *)
(***************************************************************************)
KeySeg(k) == [key |-> k]
IdxSeg(i) == [idx |-> i]
IsNumberSeg(seg) == "idx" \in DOMAIN seg

(***************************************************************************)
(* Tokens of a text.                                                       *)
(***************************************************************************)
Tok(k, s) == [k |-> k, s |-> s]
P(s) == Tok("p", s)
NL == Tok("ws", "\n")
SP == Tok("ws", " ")
IND == Tok("ws", "  ")

\* The number lexemes the model's texts use; "1.0" is a non-canonical numeral.
Numerals == {"1", "2", "5", "1.0"}
Literals == {"true", "false", "null"}

\* String(Number(s)): the canonical numeral of a number lexeme.
CanonicalNumeral(s) == IF s = "1.0" THEN "1" ELSE s

\* The tokens the characters of the string s form when they stand in a text
\* unquoted.
RawText(s) ==
    IF s = "" THEN <<>>
    ELSE IF s \in Numerals THEN <<Tok("num", s)>>
    ELSE IF s \in Literals THEN <<Tok("lit", s)>>
    ELSE <<Tok("word", s)>>

\* `${x}`: String(x) of a scalar, as a text.
TemplateString(x) ==
    CASE x.t = "str" -> RawText(x.v)
      [] x.t = "num" -> <<Tok("num", x.v)>>
      [] x.t \in {"bool", "null"} -> <<Tok("lit", x.v)>>
      [] OTHER -> <<Tok("word", x.v)>>

(***************************************************************************)
(* JSON.parse: whitespace is skipped, then one value is read by recursive  *)
(* descent and the text must end there.  A result is [ok, val, next].      *)
(***************************************************************************)
RECURSIVE StripWs(_)
StripWs(text) ==
    IF text = <<>> THEN <<>>
    ELSE IF Head(text).k = "ws" THEN StripWs(Tail(text))
    ELSE <<Head(text)>> \o StripWs(Tail(text))

ParseFail == [ok |-> FALSE, val |-> Undefined, next |-> 0]
ParseOk(x, n) == [ok |-> TRUE, val |-> x, next |-> n]
IsTok(ts, i, tok) == i <= Len(ts) /\ ts[i] = tok

RECURSIVE ParseValue(_, _)
RECURSIVE ParseElements(_, _, _)
RECURSIVE ParseMembers(_, _, _)

ParseValue(ts, i) ==
    IF i > Len(ts) THEN ParseFail
    ELSE CASE ts[i].k = "num" -> ParseOk(Num(CanonicalNumeral(ts[i].s)), i + 1)
           [] ts[i].k = "str" -> ParseOk(Str(ts[i].s), i + 1)
           [] ts[i].k = "lit" ->
                ParseOk(IF ts[i].s = "null" THEN Null ELSE Bool(ts[i].s), i + 1)
           [] ts[i] = P("[") ->
                IF IsTok(ts, i + 1, P("]")) THEN ParseOk(Arr(<<>>), i + 2)
                ELSE ParseElements(ts, i + 1, <<>>)
           [] ts[i] = P("{") ->
                IF IsTok(ts, i + 1, P("}")) THEN ParseOk(Obj(<<>>), i + 2)
                ELSE ParseMembers(ts, i + 1, <<>>)
           [] OTHER -> ParseFail

\* The elements of an array from position i on, acc being those read so far.
ParseElements(ts, i, acc) ==
    LET r == ParseValue(ts, i)
    IN  IF ~r.ok THEN ParseFail
        ELSE IF IsTok(ts, r.next, P(",")) THEN
            ParseElements(ts, r.next + 1, Append(acc, r.val))
        ELSE IF IsTok(ts, r.next, P("]")) THEN
            ParseOk(Arr(Append(acc, r.val)), r.next + 1)
        ELSE ParseFail

\* The members of an object from position i on; a repeated key overwrites.
ParseMembers(ts, i, acc) ==
    IF ~(i <= Len(ts) /\ ts[i].k = "str" /\ IsTok(ts, i + 1, P(":"))) THEN ParseFail
    ELSE LET r == ParseValue(ts, i + 2)
         IN  IF ~r.ok THEN ParseFail
             ELSE IF IsTok(ts, r.next, P(",")) THEN
                 ParseMembers(ts, r.next + 1, AssignProp(acc, ts[i].s, r.val))
             ELSE IF IsTok(ts, r.next, P("}")) THEN
                 ParseOk(Obj(AssignProp(acc, ts[i].s, r.val)), r.next + 1)
             ELSE ParseFail

\* JSON.parse(text): [ok |-> TRUE, val |-> x] or, when it throws a
\* SyntaxError, [ok |-> FALSE].
JSONparse(text) ==
    LET ts == StripWs(text)
        r == ParseValue(ts, 1)
    IN  IF r.ok /\ r.next = Len(ts) + 1 THEN [ok |-> TRUE, val |-> r.val]
        ELSE [ok |-> FALSE, val |-> Undefined]

(***************************************************************************)
(* JSON.stringify(x, null, 2): two spaces of indentation per level, one    *)
(* member or element per line, "[]" and "{}" for the empty containers.  A  *)
(* hole of an array is written null; the non-index properties of an array  *)
(* are not written.                                                        *)
(***************************************************************************)
RECURSIVE Indent(_)
Indent(d) == IF d = 0 THEN <<>> ELSE <<IND>> \o Indent(d - 1)

RECURSIVE Stringify(_, _)
RECURSIVE StringifyElements(_, _, _)
RECURSIVE StringifyMembers(_, _, _)

Stringify(x, d) ==
    CASE x.t = "num" -> <<Tok("num", x.v)>>
      [] x.t = "str" -> <<Tok("str", x.v)>>
      [] x.t \in {"bool", "null"} -> <<Tok("lit", x.v)>>
      [] x.t = "undefined" -> <<Tok("lit", "null")>>
      [] x.t = "arr" ->
           IF x.v = <<>> THEN <<P("["), P("]")>>
           ELSE <<P("[")>> \o StringifyElements(x.v, 1, d + 1)
                \o <<NL>> \o Indent(d) \o <<P("]")>>
      [] x.t = "obj" ->
           IF x.v = <<>> THEN <<P("{"), P("}")>>
           ELSE <<P("{")>> \o StringifyMembers(x.v, 1, d + 1)
                \o <<NL>> \o Indent(d) \o <<P("}")>>

StringifyElements(es, i, d) ==
    IF i > Len(es) THEN <<>>
    ELSE (IF i > 1 THEN <<P(",")>> ELSE <<>>)
         \o <<NL>> \o Indent(d) \o Stringify(es[i], d)
         \o StringifyElements(es, i + 1, d)

StringifyMembers(ps, i, d) ==
    IF i > Len(ps) THEN <<>>
    ELSE (IF i > 1 THEN <<P(",")>> ELSE <<>>)
         \o <<NL>> \o Indent(d) \o <<Tok("str", ps[i].k), P(":"), SP>>
         \o Stringify(ps[i].x, d)
         \o StringifyMembers(ps, i + 1, d)

\* JSON.stringify(x, null, 2)
JSONstringify(x) == Stringify(x, 0)

(***************************************************************************)
(* Node rows.  A row is [key, value, type]; key is Str(k) or Null.         *)
(***************************************************************************)
Row(k, x, ty) == [key |-> k, value |-> x, type |-> ty]

\* !x for a row key: null, undefined and the empty string are falsy.
Falsy(x) == x \in {Null, Undefined, Str("")}

\* The forEach of normalizeNodeData from row i on, obj being the object
\* built so far.
RECURSIVE CollectRows(_, _, _)
CollectRows(rows, i, obj) ==
    IF i > Len(rows) THEN obj
    ELSE IF rows[i].type # "array" /\ rows[i].type # "object" /\ ~Falsy(rows[i].key)
         THEN CollectRows(rows, i + 1, AssignProp(obj, rows[i].key.v, rows[i].value))
         ELSE CollectRows(rows, i + 1, obj)

\* normalizeNodeData(nodeRows): the text shown for a node.
normalizeNodeData(nodeRows) ==
    IF Len(nodeRows) = 0 THEN <<P("{"), P("}")>>
    ELSE IF Len(nodeRows) = 1 /\ Falsy(nodeRows[1].key)
         THEN TemplateString(nodeRows[1].value)
         ELSE JSONstringify(Obj(CollectRows(nodeRows, 1, <<>>)))

(***************************************************************************)
(* jsonPathToString(path)                                                  *)
(***************************************************************************)
\* Variant: every segment is put between double quotes.
SegmentTextAllQuoted(seg) ==
    IF IsNumberSeg(seg) THEN <<Tok("str", ToString(seg.idx))>>
    ELSE <<Tok("str", seg.key)>>

\* One segment as text: a number as it is, a string between double quotes.
SegmentText(seg) ==
    IF IsNumberSeg(seg) THEN <<Tok("num", ToString(seg.idx))>>
    ELSE <<Tok("str", seg.key)>>

\* segments.join("][")
RECURSIVE JoinSegments(_, _)
JoinSegments(path, i) ==
    IF i > Len(path) THEN <<>>
    ELSE (IF i > 1 THEN <<P("]"), P("[")>> ELSE <<>>)
         \o SegmentText(path[i]) \o JoinSegments(path, i + 1)

jsonPathToString(path) ==
    IF Len(path) = 0 THEN <<P("$")>>
    ELSE <<P("$"), P("[")>> \o JoinSegments(path, 1) \o <<P("]")>>

(***************************************************************************)
(* Property access on a JavaScript value.                                  *)
(***************************************************************************)
\* x[seg]; the caller rules out null and undefined, on which the read throws.
ReadMember(x, seg) ==
    IF IsArray(x) THEN
        IF IsNumberSeg(seg)
        THEN IF seg.idx < Len(x.v) THEN x.v[seg.idx + 1] ELSE Undefined
        ELSE ReadProp(x.p, seg.key)
    ELSE IF IsObject(x) /\ ~IsNumberSeg(seg) THEN ReadProp(x.v, seg.key)
    ELSE Undefined

\* The slots es with slot i assigned x; slots between the old length and i
\* are holes.
RECURSIVE AssignSlot(_, _, _)
AssignSlot(es, i, x) ==
    IF i < Len(es) THEN [es EXCEPT ![i + 1] = x]
    ELSE IF i = Len(es) THEN Append(es, x)
    ELSE AssignSlot(Append(es, Undefined), i, x)

\* Variant: the assignment leaves an object with the assigned key alone.
WriteMemberDropsSiblings(x, seg, val) ==
    IF IsArray(x) THEN
        IF IsNumberSeg(seg)
        THEN [x EXCEPT !.v = AssignSlot(x.v, seg.idx, val)]
        ELSE [x EXCEPT !.p = AssignProp(x.p, seg.key, val)]
    ELSE [x EXCEPT !.v = <<Prop(seg.key, val)>>]

\* x after x[seg] = val, x being an array or an object.
WriteMember(x, seg, val) ==
    IF IsArray(x) THEN
        IF IsNumberSeg(seg)
        THEN [x EXCEPT !.v = AssignSlot(x.v, seg.idx, val)]
        ELSE [x EXCEPT !.p = AssignProp(x.p, seg.key, val)]
    ELSE [x EXCEPT !.v = AssignProp(x.v, seg.key, val)]

\* x[seg] = val throws a TypeError in module (strict) code when x is null or
\* a primitive.
WriteThrows(x) == x = Null \/ x = Undefined \/ IsPrimitive(x)

\* The value the reference path `at` leads to from root.
RECURSIVE GetAt(_, _)
GetAt(root, at) ==
    IF at = <<>> THEN root
    ELSE GetAt(ReadMember(root, Head(at)), Tail(at))

\* root after member seg of the value at `at` is assigned val.
RECURSIVE PutAt(_, _, _, _)
PutAt(root, at, seg, val) ==
    IF at = <<>> THEN WriteMember(root, seg, val)
    ELSE WriteMember(root, Head(at),
                     PutAt(ReadMember(root, Head(at)), Tail(at), seg, val))

(***************************************************************************)
(* setValueAtPath(obj, path, value).  The result is [ret, obj]: ret is     *)
(* "true", "false", "value" (the empty path returns value itself) or       *)
(* "TypeError" when a statement throws; obj is the argument object as the  *)
(* call leaves it.  The cursor cur is the value at reference path `at`.    *)
(***************************************************************************)
Ret(r, obj) == [ret |-> r, obj |-> obj]

\* Lines 63-71: the last segment.
SetLast(obj, at, last, value) ==
    LET cur == GetAt(obj, at)
    IN  IF IsNumberSeg(last) THEN
            IF ~IsArray(cur) THEN Ret("false", obj)
            ELSE Ret("true", PutAt(obj, at, last, value))
        ELSE IF WriteThrows(cur) THEN Ret("TypeError", obj)
        ELSE Ret("true", PutAt(obj, at, last, value))

\* Variant: a missing key is not created, the walk returns false.
RECURSIVE WalkFromNoVivify(_, _, _, _, _)
WalkFromNoVivify(obj, at, path, i, value) ==
    IF i > Len(path) - 1 THEN SetLast(obj, at, path[Len(path)], value)
    ELSE LET seg == path[i]
             cur == GetAt(obj, at)
         IN  IF IsNumberSeg(seg) THEN
                 IF ~IsArray(cur) THEN Ret("false", obj)
                 ELSE IF ReadMember(cur, seg) = Undefined THEN Ret("false", obj)
                 ELSE WalkFromNoVivify(obj, Append(at, seg), path, i + 1, value)
             ELSE IF cur = Null THEN Ret("TypeError", obj)
             ELSE IF ReadMember(cur, seg) = Undefined THEN Ret("false", obj)
             ELSE WalkFromNoVivify(obj, Append(at, seg), path, i + 1, value)

\* Lines 51-61: the loop from step i on (segments are numbered from 1).
RECURSIVE WalkFrom(_, _, _, _, _)
WalkFrom(obj, at, path, i, value) ==
    IF i > Len(path) - 1 THEN SetLast(obj, at, path[Len(path)], value)
    ELSE LET seg == path[i]
             cur == GetAt(obj, at)
         IN  IF IsNumberSeg(seg) THEN
                 IF ~IsArray(cur) THEN Ret("false", obj)
                 ELSE IF ReadMember(cur, seg) = Undefined THEN Ret("false", obj)
                 ELSE WalkFrom(obj, Append(at, seg), path, i + 1, value)
             ELSE IF cur = Null THEN Ret("TypeError", obj)
             ELSE IF ReadMember(cur, seg) = Undefined THEN
                 IF WriteThrows(cur) THEN Ret("TypeError", obj)
                 ELSE WalkFrom(PutAt(obj, at, seg, Obj(<<>>)), Append(at, seg),
                               path, i + 1, value)
             ELSE WalkFrom(obj, Append(at, seg), path, i + 1, value)

setValueAtPath(obj, path, value) ==
    IF Len(path) = 0 THEN Ret("value", obj)
    ELSE WalkFrom(obj, <<>>, path, 1, value)

(***************************************************************************)
(* The selection provider: the nodes of the graph of a document.  An       *)
(* object is a node with one row per property; a scalar that is the root   *)
(* or an element of an array is a node with one keyless row; an array is   *)
(* not a node of its own.  Nodes are numbered in traversal order.          *)
(***************************************************************************)
TypeOfValue(x) ==
    CASE x.t = "str" -> "string"
      [] x.t = "num" -> "number"
      [] x.t = "bool" -> "boolean"
      [] x.t = "arr" -> "array"
      [] x.t = "obj" -> "object"
      [] OTHER -> "null"

\* The value a row carries: a scalar itself, a marker for a container.
RowValue(x) == IF x.t \in {"arr", "obj"} THEN Str("...") ELSE x

RowsOf(x) ==
    IF IsObject(x)
    THEN [i \in 1..Len(x.v) |-> Row(Str(x.v[i].k), RowValue(x.v[i].x), TypeOfValue(x.v[i].x))]
    ELSE <<Row(Null, RowValue(x), TypeOfValue(x))>>

\* The [path, rows] of the nodes in and below x, x being at path p.
RECURSIVE NodesBelow(_, _)
RECURSIVE NodesOfMembers(_, _, _)
RECURSIVE NodesOfElements(_, _, _)
NodesBelow(x, p) ==
    IF IsObject(x) THEN <<[path |-> p, text |-> RowsOf(x)]>> \o NodesOfMembers(x.v, 1, p)
    ELSE IF IsArray(x) THEN NodesOfElements(x.v, 1, p)
    ELSE <<[path |-> p, text |-> RowsOf(x)]>>

NodesOfMembers(ps, i, p) ==
    IF i > Len(ps) THEN <<>>
    ELSE (IF ps[i].x.t \in {"arr", "obj"}
          THEN NodesBelow(ps[i].x, Append(p, KeySeg(ps[i].k)))
          ELSE <<>>)
         \o NodesOfMembers(ps, i + 1, p)

NodesOfElements(es, i, p) ==
    IF i > Len(es) THEN <<>>
    ELSE NodesBelow(es[i], Append(p, IdxSeg(i - 1))) \o NodesOfElements(es, i + 1, p)

\* The selectable nodes of the document with text `text`.
GraphNodes(text) ==
    LET ns == NodesBelow(JSONparse(text).val, <<>>)
    IN  {[id |-> i, text |-> ns[i].text, path |-> ns[i].path] : i \in 1..Len(ns)}

\* No node selected: nodeData is undefined, so nodeData?.text ?? [] is the
\* empty row list and nodeData?.path is undefined (treated as empty).
NoNode == [id |-> 0, text |-> <<>>, path |-> <<>>]

(***************************************************************************)
(* The inputs of the model.                                                *)
(***************************************************************************)
\* The length of the array of the array document.
MaxItems == 2

\* An array of n numbers.
Items(n) == [i \in 1..n |-> Num(IF i % 2 = 1 THEN "1" ELSE "2")]

\* Documents an external writer (or the initial load) puts in the store.
Documents ==
    { Obj(<<Prop("a", Obj(<<Prop("b", Obj(<<>>)), Prop("c", Num("1"))>>))>>),
      Obj(<<Prop("a", Arr(Items(MaxItems)))>>),
      Obj(<<Prop("", Num("2")), Prop("a", Num("1"))>>),
      Obj(<<>>),
      Arr(<<>>),
      Obj(<<Prop("a", Arr(<<>>))>>),
      Obj(<<Prop("a", Arr(<<>>)), Prop("c", Num("1"))>>),
      Str("hello"),
      Arr(<<Obj(<<Prop("b", Obj(<<>>))>>)>>) }

DocumentTexts == {JSONstringify(d) : d \in Documents}

\* Texts the user types: an unterminated object, a number, an object written
\* without whitespace, a number written with a non-canonical numeral.
TypedTexts ==
    { <<P("{")>>,
      <<Tok("num", "2")>>,
      <<P("{"), Tok("str", "b"), P(":"), Tok("num", "2"), P("}")>>,
      <<Tok("num", "1.0")>> }

(***************************************************************************)
(* State.                                                                  *)
(***************************************************************************)
VARIABLES
    nodeData,        \* useGraph(state => state.selectedNode)
    editValue,       \* the textarea's text
    displayContent,  \* the read-only view's text
    error,           \* NoError or a message
    isEditing,
    opened,          \* the modal's opened prop
    contents,        \* the document store's text
    ev               \* the last event handled, with the state it started from

vars == <<nodeData, editValue, displayContent, error, isEditing, opened, contents, ev>>

NoError == "null"
SyntaxErrorMessage == "Unexpected token"
TypeErrorMessage == "Cannot create property"
FailedMessage == "Failed to update value at path"

\* The state a handler starts from, kept for stating what the handler did.
\* It is kept for the reset effect and for handleSave, handleCancel and
\* handleClose; the other events record NoPre.
\* op is the event handled just before; it is kept for handleSave alone.
Pre == [contents |-> contents, error |-> error, isEditing |-> isEditing,
        editValue |-> editValue, displayContent |-> displayContent,
        op |-> ""]
NoPre == [contents |-> <<>>, error |-> NoError, isEditing |-> FALSE,
          editValue |-> <<>>, displayContent |-> <<>>, op |-> ""]
Event(op, res, writes) == [op |-> op, res |-> res, writes |-> writes, pre |-> Pre]
Plain(op) == [op |-> op, res |-> "", writes |-> 0, pre |-> NoPre]

Init ==
    /\ nodeData = NoNode
    /\ editValue = normalizeNodeData(NoNode.text)
    /\ displayContent = normalizeNodeData(NoNode.text)
    /\ error = NoError
    /\ isEditing = FALSE
    /\ opened = FALSE
    /\ contents \in DocumentTexts
    /\ ev = Plain("init")

(***************************************************************************)
(* The effect of lines 38-44, run when nodeData?.id or nodeData?.text      *)
(* changes.  A node whose id and rows are equal to the selected one's may  *)
(* still carry a new rows array (fresh = TRUE), which also runs it.        *)
(***************************************************************************)
\* Variant: the effect depends on nodeData?.id alone.
DepsChangedIdOnly(n, old, fresh) == n.id # old.id

\* Whether a dependency of the effect changed from node old to node n.
DepsChanged(n, old, fresh) == n.id # old.id \/ n.text # old.text \/ fresh

SelectNode ==
    \E n \in GraphNodes(contents), fresh \in BOOLEAN :
        /\ nodeData' = n
        /\ IF DepsChanged(n, nodeData, fresh)
           THEN /\ displayContent' = normalizeNodeData(n.text)
                /\ editValue' = normalizeNodeData(n.text)
                /\ error' = NoError
                /\ isEditing' = FALSE
                /\ ev' = Event("select", "reset", 0)
           ELSE /\ UNCHANGED <<displayContent, editValue, error, isEditing>>
                /\ ev' = Event("select", "same", 0)
        /\ UNCHANGED <<opened, contents>>

\* The Edit button, line 142; shown while not editing.
StartEdit ==
    /\ opened /\ ~isEditing
    /\ isEditing' = TRUE
    /\ ev' = Plain("edit")
    /\ UNCHANGED <<nodeData, editValue, displayContent, error, opened, contents>>

\* The textarea's onChange, line 176; shown while editing.
Type ==
    /\ opened /\ isEditing
    /\ \E t \in TypedTexts : editValue' = t
    /\ ev' = Plain("type")
    /\ UNCHANGED <<nodeData, displayContent, error, isEditing, opened, contents>>

(***************************************************************************)
(* handleSave, lines 74-108.  SaveResult is what one run of the handler    *)
(* comes to: the error it sets (NoError on success), the texts it hands to *)
(* setContents, in order, and on success the new display text.             *)
(***************************************************************************)
\* Variant: the catch block sets no error.
SaveFailedSilently(message) ==
    [ok |-> FALSE, error |-> NoError, written |-> <<>>, display |-> <<>>]

SaveFailed(message) ==
    [ok |-> FALSE, error |-> message, written |-> <<>>, display |-> <<>>]
\* Variant: setContents is called in the branch and again after it.
SaveDoneWritesTwice(text, parsed) ==
    [ok |-> TRUE, error |-> NoError, written |-> <<text, text>>,
     display |-> JSONstringify(parsed)]

\* Variant: the display text is the text written to the store.
SaveDoneShowsStoreText(text, parsed) ==
    [ok |-> TRUE, error |-> NoError, written |-> <<text>>, display |-> text]

SaveDone(text, parsed) ==
    [ok |-> TRUE, error |-> NoError, written |-> <<text>>,
     display |-> JSONstringify(parsed)]

\* Variant: setContents is called before success is tested.
SaveResultWritesBeforeCheck(edit, store, node) ==
    LET parsed == JSONparse(edit)
        rootJson == JSONparse(store)
        set == setValueAtPath(rootJson.val, node.path, parsed.val)
    IN  IF ~parsed.ok THEN SaveFailed(SyntaxErrorMessage)
        ELSE IF ~rootJson.ok THEN SaveFailed(SyntaxErrorMessage)
        ELSE IF Len(node.path) = 0 THEN SaveDone(JSONstringify(parsed.val), parsed.val)
        ELSE IF set.ret = "TypeError" THEN SaveFailed(TypeErrorMessage)
        ELSE IF set.ret = "false" THEN
            [SaveFailed(FailedMessage) EXCEPT !.written = <<JSONstringify(set.obj)>>]
        ELSE SaveDone(JSONstringify(set.obj), parsed.val)

\* Variant: the empty path goes through setValueAtPath like any other, and
\* rootJson is what is written.
SaveResultAlwaysMutates(edit, store, node) ==
    LET parsed == JSONparse(edit)
        rootJson == JSONparse(store)
        set == setValueAtPath(rootJson.val, node.path, parsed.val)
    IN  IF ~parsed.ok THEN SaveFailed(SyntaxErrorMessage)
        ELSE IF ~rootJson.ok THEN SaveFailed(SyntaxErrorMessage)
        ELSE IF set.ret = "TypeError" THEN SaveFailed(TypeErrorMessage)
        ELSE IF set.ret = "false" THEN SaveFailed(FailedMessage)
        ELSE SaveDone(JSONstringify(set.obj), parsed.val)

\* Variant: the store's document is not read; the parsed value is written
\* as the whole document whatever the path.
SaveResultIgnoresStore(edit, store, node) ==
    LET parsed == JSONparse(edit)
    IN  IF ~parsed.ok THEN SaveFailed(SyntaxErrorMessage)
        ELSE SaveDone(JSONstringify(parsed.val), parsed.val)

SaveResult(edit, store, node) ==
    LET parsed == JSONparse(edit)
        rootJson == JSONparse(store)
        set == setValueAtPath(rootJson.val, node.path, parsed.val)
    IN  IF ~parsed.ok THEN SaveFailed(SyntaxErrorMessage)
        ELSE IF ~rootJson.ok THEN SaveFailed(SyntaxErrorMessage)
        ELSE IF Len(node.path) = 0 THEN SaveDone(JSONstringify(parsed.val), parsed.val)
        ELSE IF set.ret = "TypeError" THEN SaveFailed(TypeErrorMessage)
        ELSE IF set.ret = "false" THEN SaveFailed(FailedMessage)
        ELSE SaveDone(JSONstringify(set.obj), parsed.val)

\* The Save button, line 150; shown while editing.
handleSave ==
    /\ opened /\ isEditing
    /\ LET r == SaveResult(editValue, contents, nodeData)
       IN  /\ contents' = IF r.written = <<>> THEN contents
                          ELSE r.written[Len(r.written)]
           /\ error' = r.error
           /\ isEditing' = IF r.ok THEN FALSE ELSE isEditing
           /\ displayContent' = IF r.ok THEN r.display ELSE displayContent
           /\ ev' = [Event("save", IF r.ok THEN "ok" ELSE r.error, Len(r.written))
                        EXCEPT !.pre.op = ev.op]
    /\ UNCHANGED <<nodeData, editValue, opened>>

(***************************************************************************)
(* handleCancel, lines 110-115, and handleClose, lines 117-123.            *)
(***************************************************************************)
\* The text handleCancel puts back in the textarea.
CancelText(node, display) == normalizeNodeData(node.text)

\* Variant: handleCancel leaves the error in place.
CancelEditsKeepsError ==
    /\ editValue' = normalizeNodeData(nodeData.text)
    /\ UNCHANGED error
    /\ isEditing' = FALSE

CancelEdits ==
    /\ editValue' = CancelText(nodeData, displayContent)
    /\ error' = NoError
    /\ isEditing' = FALSE

\* The Cancel button, line 147; shown while editing.
handleCancel ==
    /\ opened /\ isEditing
    /\ CancelEdits
    /\ ev' = Event("cancel", "", 0)
    /\ UNCHANGED <<nodeData, displayContent, opened, contents>>

\* Variant: handleClose closes without cancelling.
CloseNeverCancels(editing) == FALSE

\* Whether handleClose runs handleCancel.
CloseCancels(editing) == editing

\* The close button and the modal's onClose; onClose closes the modal.
handleClose ==
    /\ opened
    /\ IF CloseCancels(isEditing) THEN CancelEdits
       ELSE UNCHANGED <<editValue, error, isEditing>>
    /\ opened' = FALSE
    /\ ev' = Event("close", "", 0)
    /\ UNCHANGED <<nodeData, displayContent, contents>>

\* The modal is shown: a node of the graph was clicked, which selects it
\* and then opens the modal.
Open ==
    /\ ~opened
    /\ nodeData # NoNode
    /\ opened' = TRUE
    /\ ev' = Plain("open")
    /\ UNCHANGED <<nodeData, editValue, displayContent, error, isEditing, contents>>

\* Another writer replaces the store's document.
ExternalWrite ==
    /\ \E d \in DocumentTexts : d # contents /\ contents' = d
    /\ ev' = Plain("write")
    /\ UNCHANGED <<nodeData, editValue, displayContent, error, isEditing, opened>>

Next ==
    \/ SelectNode
    \/ Open
    \/ StartEdit
    \/ Type
    \/ handleSave
    \/ handleCancel
    \/ handleClose
    \/ ExternalWrite

Spec == Init /\ [][Next]_vars

(***************************************************************************)
(* Properties.  A save, cancel, close or select event leaves in ev the     *)
(* state it started from; handleSave changes neither nodeData nor          *)
(* editValue, so after a save they are also those the save ran with.       *)
(***************************************************************************)
\* The store's document before the last event.
PreDoc == JSONparse(ev.pre.contents).val
\* The value the last save parsed from the textarea.
SavedValue == JSONparse(editValue).val
SavedPath == nodeData.path
\* The save failed as a save must: still editing, an error shown, the store
\* not written.
SaveRejected ==
    /\ isEditing
    /\ error # NoError
    /\ ev.writes = 0
    /\ contents = ev.pre.contents

\* The path leads to an existing value of x: every string segment finds its
\* key in an object, every integer segment an existing index of an array.
RECURSIVE Resolves(_, _)
Resolves(x, path) ==
    IF path = <<>> THEN TRUE
    ELSE IF IsNumberSeg(Head(path))
         THEN /\ IsArray(x)
              /\ Head(path).idx < Len(x.v)
              /\ Resolves(x.v[Head(path).idx + 1], Tail(path))
         ELSE /\ IsObject(x)
              /\ KeyIndex(x.v, Head(path).key, 1) # 0
              /\ Resolves(ReadProp(x.v, Head(path).key), Tail(path))

\* Deep equality of two values: arrays element by element, objects key by
\* key whatever the order of their keys.
RECURSIVE DeepEqual(_, _)
DeepEqual(x, y) ==
    IF x.t # y.t THEN FALSE
    ELSE IF x.t = "arr" THEN
        /\ Len(x.v) = Len(y.v)
        /\ \A i \in 1..Len(x.v) : DeepEqual(x.v[i], y.v[i])
    ELSE IF x.t = "obj" THEN
        /\ {x.v[i].k : i \in 1..Len(x.v)} = {y.v[i].k : i \in 1..Len(y.v)}
        /\ \A i \in 1..Len(x.v) : DeepEqual(x.v[i].x, ReadProp(y.v, x.v[i].k))
    ELSE x = y

\* C1: a save whose editText is not valid JSON stays in Editing, sets a
\* non-null error and does not invoke setContents; the stored document is
\* unchanged.
C1_InvalidJsonSaveRejected ==
    (ev.op = "save" /\ ~JSONparse(editValue).ok) => SaveRejected

C1_Witness ==
    /\ ev.op = "save"
    /\ ~JSONparse(editValue).ok
    /\ Len(SavedPath) > 0
    /\ error = SyntaxErrorMessage
    /\ isEditing

\* C2: a save whose editText is valid JSON, on a node whose path is empty or
\* resolves against the current document, invokes setContents exactly once
\* and ends with isEditing false and error null, whatever error an earlier
\* attempt left.
C2_ValidSaveWritesOnce ==
    (/\ ev.op = "save"
     /\ JSONparse(editValue).ok
     /\ Resolves(PreDoc, SavedPath))
    => (ev.writes = 1 /\ ~isEditing /\ error = NoError)

C2_Witness ==
    /\ ev.op = "save"
    /\ JSONparse(editValue).ok
    /\ Len(SavedPath) > 0
    /\ Resolves(PreDoc, SavedPath)
    /\ ev.pre.error # NoError
    /\ ev.writes = 1
    /\ ~isEditing
    /\ error = NoError

\* C3 (as claimed): cancel sets editText to exactly the current viewText,
\* clears error and leaves Editing.
C3_CancelRestoresViewText ==
    ev.op = "cancel" => (editValue = displayContent /\ error = NoError /\ ~isEditing)

\* C4 (as claimed): after a save at a non-empty path succeeds, the value
\* read at that path from the document written to the store is deep-equal
\* to the value saved.
C4_ReadBackAfterSave ==
    (ev.op = "save" /\ ev.res = "ok" /\ Len(SavedPath) > 0)
    => DeepEqual(GetAt(JSONparse(contents).val, SavedPath), SavedValue)

\* Following the path in x by the mutator's rules, some string segment
\* meets a cursor that is not an object (an absent key of an object is
\* created as an empty object; a walk that already failed meets nothing).
RECURSIVE StringSegmentMeetsNonObject(_, _)
StringSegmentMeetsNonObject(x, path) ==
    IF path = <<>> THEN FALSE
    ELSE IF IsNumberSeg(Head(path)) THEN
        /\ IsArray(x)
        /\ Head(path).idx < Len(x.v)
        /\ StringSegmentMeetsNonObject(x.v[Head(path).idx + 1], Tail(path))
    ELSE IF ~IsObject(x) THEN TRUE
    ELSE IF KeyIndex(x.v, Head(path).key, 1) = 0
         THEN StringSegmentMeetsNonObject(Obj(<<>>), Tail(path))
         ELSE StringSegmentMeetsNonObject(ReadProp(x.v, Head(path).key), Tail(path))

\* C5 (as claimed): when a string segment meets an array or a scalar, the
\* save reports an error, stays in Editing and does not write the store.
C5_StringSegmentOnNonObjectFails ==
    (/\ ev.op = "save"
     /\ JSONparse(editValue).ok
     /\ StringSegmentMeetsNonObject(PreDoc, SavedPath))
    => SaveRejected

\* All but the last element of a non-empty sequence.
Front(path) == SubSeq(path, 1, Len(path) - 1)
Last(path) == path[Len(path)]

\* C6 (as claimed): a save whose path ends in an integer segment succeeds
\* only when the cursor is an array and the index is an existing index or
\* the array's length.
C6_FinalIndexExistingOrAppend ==
    (/\ ev.op = "save"
     /\ ev.res = "ok"
     /\ Len(SavedPath) > 0
     /\ IsNumberSeg(Last(SavedPath)))
    => LET cur == GetAt(PreDoc, Front(SavedPath))
       IN  IsArray(cur) /\ Last(SavedPath).idx <= Len(cur.v)

\* C7: a save at a non-empty path that fails in the path walk leaves the
\* store's document identical, stays in Editing and sets error, also when
\* an earlier step of the walk created an intermediate object.
C7_FailedWalkLeavesStore ==
    (/\ ev.op = "save"
     /\ Len(SavedPath) > 0
     /\ JSONparse(editValue).ok
     /\ setValueAtPath(PreDoc, SavedPath, SavedValue).ret # "true")
    => (SaveRejected /\ error \in {FailedMessage, TypeErrorMessage})

\* The walk created an object at the first segment and failed afterwards.
C7_Witness ==
    /\ ev.op = "save"
    /\ ev.res = FailedMessage
    /\ Len(SavedPath) = 2
    /\ IsObject(PreDoc)
    /\ ~IsNumberSeg(SavedPath[1])
    /\ KeyIndex(PreDoc.v, SavedPath[1].key, 1) = 0
    /\ contents = ev.pre.contents

\* C8: at a non-final step, a string segment whose key is absent from an
\* object cursor creates an empty object there and the walk goes on in it
\* (so the save comes to what the rest of the path does to an empty object
\* placed at that key), whereas an integer segment out of the bounds of an
\* array cursor fails and creates nothing.
C8_VivifyObjectsNotArrays ==
    (/\ ev.op = "save"
     /\ JSONparse(editValue).ok
     /\ Len(SavedPath) >= 2)
    => LET seg == SavedPath[1]
           rest == setValueAtPath(Obj(<<>>), Tail(SavedPath), SavedValue)
       IN  /\ (/\ ~IsNumberSeg(seg)
               /\ IsObject(PreDoc)
               /\ KeyIndex(PreDoc.v, seg.key, 1) = 0)
              => IF rest.ret = "true"
                 THEN /\ ev.res = "ok"
                      /\ contents = JSONstringify(WriteMember(PreDoc, seg, rest.obj))
                 ELSE SaveRejected
           /\ (/\ IsNumberSeg(seg)
               /\ IsArray(PreDoc)
               /\ seg.idx >= Len(PreDoc.v))
              => (SaveRejected /\ error = FailedMessage)

\* setAtPath on {} with path ["a","b"] and value 2 gives {a:{b:2}}.
C8_Witness ==
    /\ ev.op = "save"
    /\ ev.res = "ok"
    /\ PreDoc = Obj(<<>>)
    /\ SavedPath = <<KeySeg("a"), KeySeg("b")>>
    /\ SavedValue = Num("2")
    /\ contents = JSONstringify(Obj(<<Prop("a", Obj(<<Prop("b", Num("2"))>>))>>))

\* The other half of C8: an integer segment beyond the array was refused.
C8_WitnessArray ==
    /\ ev.op = "save"
    /\ Len(SavedPath) >= 2
    /\ IsNumberSeg(SavedPath[1])
    /\ IsArray(PreDoc)
    /\ SavedPath[1].idx >= Len(PreDoc.v)
    /\ JSONparse(editValue).ok
    /\ error = FailedMessage

\* C9: a change of the selected node's id or rows, in any state, resets the
\* editor: not editing, no error, and both texts the projection of the new
\* node's rows.
C9_SelectionChangeResets ==
    [][(nodeData'.id # nodeData.id \/ nodeData'.text # nodeData.text)
       => /\ ~isEditing'
          /\ error' = NoError
          /\ displayContent' = normalizeNodeData(nodeData'.text)
          /\ editValue' = normalizeNodeData(nodeData'.text)]_vars

\* A selection change arrived while editing with an error and unsaved text.
C9_Witness ==
    /\ ev.op = "select"
    /\ ev.res = "reset"
    /\ ev.pre.isEditing
    /\ ev.pre.error # NoError
    /\ ev.pre.editValue # editValue
    /\ ~isEditing
    /\ error = NoError

\* C10: a close while Editing cancels first: afterwards isEditing is false,
\* error is null, the textarea holds the node's projection again, and the
\* store was not written.
C10_CloseWhileEditingCancels ==
    (ev.op = "close" /\ ev.pre.isEditing)
    => /\ ~isEditing
       /\ error = NoError
       /\ editValue = normalizeNodeData(nodeData.text)
       /\ contents = ev.pre.contents
       /\ ev.writes = 0
       /\ ~opened

\* A close discarded a valid unsaved text after a failed save.
C10_Witness ==
    /\ ev.op = "close"
    /\ ev.pre.isEditing
    /\ JSONparse(ev.pre.editValue).ok
    /\ ev.pre.editValue # editValue
    /\ ev.pre.error # NoError
    /\ ~isEditing
    /\ ~opened

\* C11: error is non-null only while isEditing is true and the most recent
\* save attempt failed.  Stated step by step: after any step that leaves an
\* error, the editor is editing, and either the step is a failed save or it
\* is no save and the same error was there before it; the initial state has
\* no error, so the last save before any state with an error is a failed one.
C11_ErrorOnlyAfterFailedSave ==
    [][error' # NoError
       => /\ isEditing'
          /\ \/ ev'.op = "save" /\ ev'.res # "ok" /\ ev'.res = error'
             \/ ev'.op # "save" /\ error' = error]_vars

\* An error outlived a keystroke after the failed save that set it.
C11_Witness ==
    /\ error # NoError
    /\ isEditing
    /\ ev.op = "type"

\* C12 (as claimed): whenever isEditing is false, editText and viewText are
\* equal.
C12_ViewingTextsEqual ==
    ~isEditing => editValue = displayContent

\* C13: with an empty path and valid JSON in editText, save makes the store's
\* document exactly the pretty-printed parsed value, whatever it held.
C13_EmptyPathReplacesDocument ==
    (ev.op = "save" /\ Len(SavedPath) = 0 /\ JSONparse(editValue).ok)
    => /\ ev.res = "ok"
       /\ ev.writes = 1
       /\ contents = JSONstringify(SavedValue)

\* The root node of a document was saved with a value other than the old one.
C13_Witness ==
    /\ ev.op = "save"
    /\ nodeData # NoNode
    /\ Len(SavedPath) = 0
    /\ JSONparse(editValue).ok
    /\ ~DeepEqual(PreDoc, SavedValue)
    /\ IsObject(PreDoc)
    /\ contents = JSONstringify(SavedValue)

\* The selected node's rows are exactly one row with no key.
SingleKeylessRow ==
    Len(nodeData.text) = 1 /\ nodeData.text[1].key = Null

\* C14 (as claimed): the projection of a single keyless row is the JSON text
\* of the row's value: it parses back to the value, and a save of the
\* unmodified projection does not fail with a parse error.
C14_SingleRowProjectionIsJson ==
    SingleKeylessRow
    => LET projection == normalizeNodeData(nodeData.text)
           r == JSONparse(projection)
       IN  /\ r.ok
           /\ DeepEqual(r.val, nodeData.text[1].value)
           /\ (ev.op = "save" /\ editValue = projection)
              => ev.res # SyntaxErrorMessage

\* The object of the rows that have a key and are of neither container
\* type, in row order, from row i on.
RECURSIVE ScalarKeyedRows(_, _, _)
ScalarKeyedRows(rows, i, obj) ==
    IF i > Len(rows) THEN obj
    ELSE IF rows[i].key # Null /\ rows[i].type \notin {"array", "object"}
         THEN ScalarKeyedRows(rows, i + 1, AssignProp(obj, rows[i].key.v, rows[i].value))
         ELSE ScalarKeyedRows(rows, i + 1, obj)

\* C15 (as claimed): the text shown after the reset is "{}" for no rows and,
\* for rows that are not a single keyless row, the object of the rows that
\* have a key and a scalar type, each key mapped to its row's value, in row
\* order.
C15_ProjectionKeepsKeyedScalars ==
    (ev.op = "select" /\ ev.res = "reset")
    => /\ Len(nodeData.text) = 0 => displayContent = <<P("{"), P("}")>>
       /\ (Len(nodeData.text) > 0 /\ ~SingleKeylessRow)
          => displayContent
             = JSONstringify(Obj(ScalarKeyedRows(nodeData.text, 1, <<>>)))

\* C16: the path shown is "$" for an empty path and otherwise "$" followed,
\* in path order, by one bracket group per segment, a string segment in
\* double quotes and an integer segment bare.
C16_PathFormat ==
    LET path == nodeData.path
        text == jsonPathToString(path)
    IN  IF Len(path) = 0 THEN text = <<P("$")>>
        ELSE /\ Len(text) = 1 + 3 * Len(path)
             /\ text[1] = P("$")
             /\ \A i \in 1..Len(path) :
                  /\ text[3 * i - 1] = P("[")
                  /\ text[3 * i] = IF IsNumberSeg(path[i])
                                   THEN Tok("num", ToString(path[i].idx))
                                   ELSE Tok("str", path[i].key)
                  /\ text[3 * i + 1] = P("]")

\* A path of a key and an index, as ["customer", 0] in $["customer"][0].
C16_Witness ==
    /\ nodeData.path = <<KeySeg("a"), IdxSeg(0)>>
    /\ opened
    /\ jsonPathToString(nodeData.path)
       = <<P("$"), P("["), Tok("str", "a"), P("]"), P("["), Tok("num", "0"), P("]")>>

\* The store's document.
StoredDoc == JSONparse(contents).val

\* p is a prefix of q (q itself included).
IsPrefix(p, q) == Len(p) <= Len(q) /\ SubSeq(q, 1, Len(p)) = p

\* q is neither a prefix of p nor an extension of p.
Apart(q, p) == ~IsPrefix(q, p) /\ ~IsPrefix(p, q)

\* The paths that lead to a value of x, the empty path included.
RECURSIVE PathsOf(_)
PathsOf(x) ==
    {<<>>} \cup
    IF IsArray(x)
    THEN UNION {{<<IdxSeg(i - 1)>> \o q : q \in PathsOf(x.v[i])} : i \in 1..Len(x.v)}
    ELSE IF IsObject(x)
    THEN UNION {{<<KeySeg(x.v[i].k)>> \o q : q \in PathsOf(x.v[i].x)} : i \in 1..Len(x.v)}
    ELSE {}

\* Every value of the document before the save that lies apart from p is in
\* the store's document, at the same path.
KeptApartFrom(p) ==
    \A q \in PathsOf(PreDoc) :
        Apart(q, p) => /\ Resolves(StoredDoc, q)
                       /\ DeepEqual(GetAt(StoredDoc, q), GetAt(PreDoc, q))

\* C17: a successful save at a non-empty path p leaves, at every path q of
\* the document before the save that is neither a prefix nor an extension of
\* p, the value that was there.
C17_SaveReplacesOnlySubtree ==
    (ev.op = "save" /\ ev.res = "ok" /\ Len(SavedPath) > 0)
    => KeptApartFrom(SavedPath)

\* A save that changed the value at p while values apart from p existed.
C17_Witness ==
    /\ ev.op = "save" /\ ev.res = "ok" /\ Len(SavedPath) > 0
    /\ Resolves(PreDoc, SavedPath)
    /\ ~DeepEqual(GetAt(StoredDoc, SavedPath), GetAt(PreDoc, SavedPath))
    /\ \E q \in PathsOf(PreDoc) : Apart(q, SavedPath)

\* C18: the save works on the store's document as it is when Save is
\* pressed.  When another writer wrote the store just before the save, the
\* node's path still leads to a value and the text parses, the save
\* succeeds with one write, and the document written holds the other
\* writer's values apart from the path together with the saved value at the
\* path.
C18_SaveReadsStoreAtSaveTime ==
    (/\ ev.op = "save" /\ ev.pre.op = "write"
     /\ JSONparse(editValue).ok
     /\ Len(SavedPath) > 0 /\ Resolves(PreDoc, SavedPath))
    => /\ ev.res = "ok" /\ ev.writes = 1
       /\ KeptApartFrom(SavedPath)
       /\ Resolves(StoredDoc, SavedPath)
       /\ DeepEqual(GetAt(StoredDoc, SavedPath), SavedValue)

\* The other writer added the key c beside the node at ["a"]; the save put
\* the typed value at ["a"] and c is still there.
C18_Witness ==
    /\ ev.op = "save" /\ ev.pre.op = "write" /\ ev.res = "ok"
    /\ SavedPath = <<KeySeg("a")>>
    /\ nodeData.text = <<>>
    /\ DeepEqual(PreDoc, Obj(<<Prop("a", Arr(<<>>)), Prop("c", Num("1"))>>))
    /\ DeepEqual(StoredDoc, Obj(<<Prop("a", SavedValue), Prop("c", Num("1"))>>))
    /\ SavedValue # Arr(<<>>)

\* C19: a successful save sets viewText to the pretty-printed value parsed
\* from editText; every other step except a selection/content change that
\* resets the editor leaves viewText as it is.
C19_ViewTextAfterSave ==
    [][/\ (ev'.op = "save" /\ ev'.res = "ok")
          => displayContent' = JSONstringify(JSONparse(editValue).val)
       /\ (/\ ~(ev'.op = "save" /\ ev'.res = "ok")
           /\ ~(ev'.op = "select" /\ ev'.res = "reset"))
          => displayContent' = displayContent]_vars

\* After a save, an Edit and a Cancel the view text is still the saved
\* value, which is not the projection of the node's rows.
C19_Witness ==
    /\ ev.op = "cancel"
    /\ displayContent # normalizeNodeData(nodeData.text)
    /\ JSONparse(displayContent).ok
    /\ displayContent = JSONstringify(JSONparse(displayContent).val)

\* C20 (as claimed): Edit followed directly by Save, with the textarea still
\* holding the projection of a node of the stored document at a non-empty
\* path, leaves the stored document's value unchanged.
C20_NoOpEditKeepsDocument ==
    (/\ ev.op = "save" /\ ev.pre.op = "edit"
     /\ Len(SavedPath) > 0
     /\ nodeData \in GraphNodes(ev.pre.contents)
     /\ editValue = normalizeNodeData(nodeData.text))
    => DeepEqual(StoredDoc, PreDoc)

====
